---- MODULE Spec2Model ----
(***************************************************************************)
(* A model of LorenzODE.py: the pull-back estimation of the Lyapunov       *)
(* characteristic exponents of a three-dimensional flow.                   *)
(*                                                                         *)
(* Arithmetic.  The script computes in IEEE doubles.  The model computes   *)
(* in exact real arithmetic on the numbers the script's operations can     *)
(* produce from rational inputs: +, -, *, / and sqrt of a rational give    *)
(* numbers of the form (n/d)*sqrt(r), r a squarefree positive integer.     *)
(* A number is a record                                                    *)
(*     [k |-> "fin", n |-> numerator, d |-> denominator > 0, r |-> r]      *)
(* in lowest terms, or one of the IEEE specials [k |-> "nan"] and          *)
(* [k |-> "inf", s |-> sign], which numpy's division produces instead of   *)
(* raising when the divisor is zero.                                       *)
(***************************************************************************)
EXTENDS Integers, Sequences, FiniteSets, TLC

Abs(k) == IF k < 0 THEN -k ELSE k

Sgn(k) == IF k < 0 THEN -1 ELSE IF k = 0 THEN 0 ELSE 1

RECURSIVE Gcd(_, _)
Gcd(a, b) == IF b = 0 THEN a ELSE Gcd(b, a % b)

Lcm(a, b) == (a \div Gcd(a, b)) * b

NaN == [k |-> "nan"]

Inf(s) == [k |-> "inf", s |-> s]

\* The finite number (n/d)*sqrt(r) in lowest terms; d > 0, r squarefree.
Norm(n, d, r) ==
    IF n = 0 THEN [k |-> "fin", n |-> 0, d |-> 1, r |-> 1]
    ELSE LET g == Gcd(Abs(n), d)
         IN  [k |-> "fin", n |-> n \div g, d |-> d \div g, r |-> r]

\* The rational n/d.
Q(n, d) == Norm(n, d, 1)

Zero == Q(0, 1)

One == Q(1, 1)

IsFin(a) == a.k = "fin"

IsZero(a) == a.k = "fin" /\ a.n = 0

\* The sign of a number: -1, 0 or 1 (a NaN has none).
Sign(a) == IF a.k = "inf" THEN a.s ELSE Sgn(a.n)

\* m = s*s*t with t squarefree: <<s, t>>, by trial division from k.
RECURSIVE SquarePart(_, _, _)
SquarePart(m, k, s) ==
    IF k * k > m THEN <<s, m>>
    ELSE IF m % (k * k) = 0 THEN SquarePart(m \div (k * k), k, s * k)
    ELSE SquarePart(m, k + 1, s)

RNeg(a) ==
    CASE a.k = "nan" -> NaN
      [] a.k = "inf" -> Inf(-a.s)
      [] a.k = "fin" -> [a EXCEPT !.n = -a.n]

\* a * b.  sqrt(r1)*sqrt(r2) = g*sqrt((r1/g)*(r2/g)), g = gcd(r1, r2).
RMul(a, b) ==
    CASE a.k = "nan" \/ b.k = "nan" -> NaN
      [] a.k = "inf" \/ b.k = "inf" ->
            IF Sign(a) * Sign(b) = 0 THEN NaN ELSE Inf(Sign(a) * Sign(b))
      [] OTHER ->
            IF a.n = 0 \/ b.n = 0 THEN Zero
            ELSE LET g  == Gcd(a.r, b.r)
                     g1 == Gcd(Abs(a.n), b.d)
                     g2 == Gcd(Abs(b.n), a.d)
                     n1 == a.n \div g1
                     n2 == b.n \div g2
                     d1 == a.d \div g2
                     d2 == b.d \div g1
                     g3 == Gcd(g, d1 * d2)
                 IN  Norm(n1 * n2 * (g \div g3), (d1 * d2) \div g3,
                          (a.r \div g) * (b.r \div g))

\* 1/b for a finite b # 0:  1/((n/d)*sqrt(r)) = (d/(n*r))*sqrt(r).
RInv(b) == Norm(Sgn(b.n) * b.d, Abs(b.n) * b.r, b.r)

\* a / b with IEEE's results for a zero divisor: 0/0 = nan, x/0 = +-inf.
RDiv(a, b) ==
    CASE a.k = "nan" \/ b.k = "nan" -> NaN
      [] a.k = "inf" /\ b.k = "inf" -> NaN
      [] a.k = "inf" -> Inf(IF Sign(b) < 0 THEN -a.s ELSE a.s)
      [] b.k = "inf" -> Zero
      [] b.n = 0 -> IF a.n = 0 THEN NaN ELSE Inf(Sgn(a.n))
      [] OTHER -> RMul(a, RInv(b))

\* a + b.  Two finite non-zero numbers are added only when they share the
\* radical; the script never adds numbers of different radicals, and the
\* CASE has no arm for them.
RAdd(a, b) ==
    CASE a.k = "nan" \/ b.k = "nan" -> NaN
      [] a.k = "inf" /\ b.k = "inf" -> IF a.s = b.s THEN a ELSE NaN
      [] a.k = "inf" -> a
      [] b.k = "inf" -> b
      [] a.n = 0 -> b
      [] b.n = 0 -> a
      [] a.r = b.r ->
            LET l == Lcm(a.d, b.d)
            IN  Norm(a.n * (l \div a.d) + b.n * (l \div b.d), l, a.r)

RSub(a, b) == RAdd(a, RNeg(b))

\* numpy's sqrt of a rational: sqrt(n/d) = (s1/(s2*t2))*sqrt(t1*t2) where
\* n = s1*s1*t1 and d = s2*s2*t2; nan for a negative argument.
RSqrt(a) ==
    CASE a.k = "nan" -> NaN
      [] a.k = "inf" -> IF a.s > 0 THEN a ELSE NaN
      [] a.n < 0 -> NaN
      [] a.n = 0 -> Zero
      [] a.r = 1 ->
            LET p == SquarePart(a.n, 2, 1)
                q == SquarePart(a.d, 2, 1)
            IN  Norm(p[1], q[1] * q[2], p[2] * q[2])

\* a < b and a <= b for rationals.
RLess(a, b) == a.n * b.d < b.n * a.d

RLeq(a, b) == a.n * b.d <= b.n * a.d

RAbs(a) ==
    CASE a.k = "nan" -> NaN
      [] a.k = "inf" -> Inf(1)
      [] a.k = "fin" -> [a EXCEPT !.n = Abs(a.n)]

Two == Q(2, 1)

Six == Q(6, 1)

(***************************************************************************)
(* The Lorenz 3D ODEs and their tangent-space (linearized) flow.           *)
(***************************************************************************)
LorenzXDot(alpha, gamma, mu, beta, delta, lambd, x, y, z) ==
    RSub(RMul(RMul(alpha, y), z), RMul(gamma, x))

LorenzYDot(alpha, gamma, mu, beta, delta, lambd, x, y, z) ==
    RSub(RMul(mu, RAdd(y, z)), RMul(RMul(beta, x), z))

LorenzZDot(alpha, gamma, mu, beta, delta, lambd, x, y, z) ==
    RSub(RMul(delta, y), RMul(lambd, z))

LorenzDXDot(alpha, gamma, mu, beta, delta, lambd, x, y, z, dx, dy, dz) ==
    RSub(RMul(alpha, RAdd(RMul(y, dz), RMul(z, dy))), RMul(gamma, dx))

\* LorenzDYDot with y for z in the last product.
LorenzDYDotSlip(alpha, gamma, mu, beta, delta, lambd, x, y, z, dx, dy, dz) ==
    RSub(RMul(mu, RAdd(dy, dz)), RMul(beta, RAdd(RMul(x, dz), RMul(y, dx))))

LorenzDYDot(alpha, gamma, mu, beta, delta, lambd, x, y, z, dx, dy, dz) ==
    RSub(RMul(mu, RAdd(dy, dz)), RMul(beta, RAdd(RMul(x, dz), RMul(z, dx))))

LorenzDZDot(alpha, gamma, mu, beta, delta, lambd, x, y, z, dx, dy, dz) ==
    RSub(RMul(delta, dy), RMul(lambd, dz))

\* Volume contraction: the trace of the Jacobian.
LorenzODETrJac(alpha, gamma, mu, beta, delta, lambd, x, y, z) ==
    RSub(RSub(mu, gamma), lambd)

(***************************************************************************)
(* The fractal dimension from the LCEs (Kaplan-Yorke conjecture).          *)
(*                                                                         *)
(* An argument is a number with its Python type: float, or numpy's float64 *)
(* (what the script passes at line 262, since LCE1 += log(d) makes the     *)
(* exponents float64).  A call returns a value or raises an exception.     *)
(***************************************************************************)
PyFloat(v) == [ty |-> "float", v |-> v]

NpFloat(v) == [ty |-> "float64", v |-> v]

Return(a) == [k |-> "return", v |-> a]

Raise(exc) == [k |-> "raise", exc |-> exc]

\* a + b: float64 if either operand is.
Plus(a, b) ==
    [ty |-> IF a.ty = "float64" \/ b.ty = "float64" THEN "float64" ELSE "float",
     v |-> RAdd(a.v, b.v)]

\* abs(a) keeps the type.
AbsOf(a) == [a EXCEPT !.v = RAbs(a.v)]

\* a / b: Python's float division raises ZeroDivisionError for a zero
\* divisor; numpy's returns inf or nan (with a RuntimeWarning on stderr, the
\* value itself carries nothing).
TrueDivide(a, b) ==
    IF a.ty = "float" /\ b.ty = "float" /\ IsZero(b.v)
    THEN Raise("ZeroDivisionError")
    ELSE Return([ty |-> Plus(a, b).ty, v |-> RDiv(a.v, b.v)])

\* 2.0 + q, for the outcome q of the division.
TwoPlus(q) == IF q.k = "raise" THEN q ELSE Return(Plus(PyFloat(Two), q.v))

\* Line 49: "close" to zero.
Err == Q(1, 100)

\* FractalDimension3DODE with abs(LCE1) < Err for the second test.
FractalDimensionStrict(LCE1, LCE2, LCE3) ==
    IF RLess(LCE1.v, RNeg(Err)) THEN Return(PyFloat(Zero))
    ELSE IF RLess(RAbs(LCE1.v), Err)
         THEN IF RLess(LCE2.v, RNeg(Err)) THEN Return(PyFloat(One))
              ELSE Return(PyFloat(Two))
         ELSE TwoPlus(TrueDivide(Plus(LCE1, LCE2), AbsOf(LCE3)))

FractalDimension3DODE(LCE1, LCE2, LCE3) ==
    IF RLess(LCE1.v, RNeg(Err)) THEN Return(PyFloat(Zero))
    ELSE IF RLeq(RAbs(LCE1.v), Err)
         THEN IF RLess(LCE2.v, RNeg(Err)) THEN Return(PyFloat(One))
              ELSE Return(PyFloat(Two))
         ELSE TwoPlus(TrueDivide(Plus(LCE1, LCE2), AbsOf(LCE3)))

(***************************************************************************)
(* The integrators.  The script passes LorenzXDot, LorenzYDot, LorenzZDot  *)
(* as f, g, h and LorenzDXDot, LorenzDYDot, LorenzDZDot as df, dg, dh in   *)
(* every call, so the model calls them directly.  A point or a tangent     *)
(* vector is a triple <<x, y, z>>.                                         *)
(***************************************************************************)
Half(k) == RDiv(k, Two)

\* u + v, c * v and v / 2.0, component by component.
VAdd(u, v) == << RAdd(u[1], v[1]), RAdd(u[2], v[2]), RAdd(u[3], v[3]) >>

VTimes(c, v) == << RMul(c, v[1]), RMul(c, v[2]), RMul(c, v[3]) >>

VHalf(v) == << Half(v[1]), Half(v[2]), Half(v[3]) >>

\* One stage of RKThreeD at the point s:  <<dt * f(..), dt * g(..), dt * h(..)>>.
Stage(a, b, c, d, e, i, s, dt) ==
    << RMul(dt, LorenzXDot(a, b, c, d, e, i, s[1], s[2], s[3])),
       RMul(dt, LorenzYDot(a, b, c, d, e, i, s[1], s[2], s[3])),
       RMul(dt, LorenzZDot(a, b, c, d, e, i, s[1], s[2], s[3])) >>

\* One stage of TangentFlowRKThreeD at the point s for the tangent vector t:
\* <<dt * df(..), dt * dg(..), dt * dh(..)>>.
TangentStage(a, b, c, d, e, i, s, t, dt) ==
    << RMul(dt, LorenzDXDot(a, b, c, d, e, i, s[1], s[2], s[3], t[1], t[2], t[3])),
       RMul(dt, LorenzDYDot(a, b, c, d, e, i, s[1], s[2], s[3], t[1], t[2], t[3])),
       RMul(dt, LorenzDZDot(a, b, c, d, e, i, s[1], s[2], s[3], t[1], t[2], t[3])) >>

\* The RK4 combination  v + (k1 + 2.0*k2 + 2.0*k3 + k4) / 6.0  of one
\* coordinate, and of the three.
Combine(v, k1, k2, k3, k4) ==
    RAdd(v, RDiv(RAdd(RAdd(RAdd(k1, RMul(Two, k2)), RMul(Two, k3)), k4), Six))

VCombine(v, k1, k2, k3, k4) ==
    << Combine(v[1], k1[1], k2[1], k3[1], k4[1]),
       Combine(v[2], k1[2], k2[2], k3[2], k4[2]),
       Combine(v[3], k1[3], k2[3], k3[3], k4[3]) >>

\* 3D fourth-order Runge-Kutta integrator, lines 62-77.  p is the tuple of
\* coefficients <<a, b, c, d, e, i>>, s the point <<x, y, z>>, and k1 is
\* <<k1x, k1y, k1z>>, ...; each stage is handed to the next as an argument.
StageAt(p, s, dt) == Stage(p[1], p[2], p[3], p[4], p[5], p[6], s, dt)

RKStage4(p, s, dt, k1, k2, k3) ==
    VCombine(s, k1, k2, k3, StageAt(p, VAdd(s, k3), dt))

RKStage3(p, s, dt, k1, k2) ==
    RKStage4(p, s, dt, k1, k2, StageAt(p, VAdd(s, VHalf(k2)), dt))

RKStage2(p, s, dt, k1) ==
    RKStage3(p, s, dt, k1, StageAt(p, VAdd(s, VHalf(k1)), dt))

RKStage1(p, s, dt) == RKStage2(p, s, dt, StageAt(p, s, dt))

RKThreeD(a, b, c, d, e, i, x, y, z, dt) ==
    RKStage1(<< a, b, c, d, e, i >>, << x, y, z >>, dt)

\* Tangent space flow (fourth-order Runge-Kutta), lines 81-96: the four
\* stages vary the tangent argument t = <<dx, dy, dz>> only; the point
\* s = <<x, y, z>> is the same in every stage.
TangentStageAt(p, s, t, dt) ==
    TangentStage(p[1], p[2], p[3], p[4], p[5], p[6], s, t, dt)

TangentRKStage4(p, s, t, dt, k1, k2, k3) ==
    VCombine(t, k1, k2, k3, TangentStageAt(p, s, VAdd(t, k3), dt))

TangentRKStage3(p, s, t, dt, k1, k2) ==
    TangentRKStage4(p, s, t, dt, k1, k2,
                    TangentStageAt(p, s, VAdd(t, VHalf(k2)), dt))

TangentRKStage2(p, s, t, dt, k1) ==
    TangentRKStage3(p, s, t, dt, k1,
                    TangentStageAt(p, s, VAdd(t, VHalf(k1)), dt))

TangentRKStage1(p, s, t, dt) ==
    TangentRKStage2(p, s, t, dt, TangentStageAt(p, s, t, dt))

\* The tangent flow with the second and third stage taken at the point that
\* RKThreeD's first stage reaches from <<x, y, z>>.
TangentFlowMovingPoint(a, b, c, d, e, i, x, y, z, dx, dy, dz, dt) ==
    TangentRKStage2(<< a, b, c, d, e, i >>,
                    VAdd(<< x, y, z >>,
                         VHalf(Stage(a, b, c, d, e, i, << x, y, z >>, dt))),
                    << dx, dy, dz >>, dt,
                    TangentStage(a, b, c, d, e, i, << x, y, z >>,
                                 << dx, dy, dz >>, dt))

TangentFlowRKThreeD(a, b, c, d, e, i, x, y, z, dx, dy, dz, dt) ==
    TangentRKStage1(<< a, b, c, d, e, i >>, << x, y, z >>, << dx, dy, dz >>, dt)

\* e . f, as the script writes it:  ex*fx + ey*fy + ez*fz.
Dot(e, f) == RAdd(RAdd(RMul(e[1], f[1]), RMul(e[2], f[2])), RMul(e[3], f[3]))

\* sqrt(ex*ex + ey*ey + ez*ez)
Length(e) == RSqrt(Dot(e, e))

\* e /= d, component by component (numpy's division: no exception).
Scale(e, d) == << RDiv(e[1], d), RDiv(e[2], d), RDiv(e[3], d) >>

\* e -= c * f
Remove(e, c, f) ==
    << RSub(e[1], RMul(c, f[1])),
       RSub(e[2], RMul(c, f[2])),
       RSub(e[3], RMul(c, f[3])) >>

\* e -= c1 * f1 + c2 * f2
Remove2(e, c1, f1, c2, f2) ==
    << RSub(e[1], RAdd(RMul(c1, f1[1]), RMul(c2, f2[1]))),
       RSub(e[2], RAdd(RMul(c1, f1[2]), RMul(c2, f2[2]))),
       RSub(e[3], RAdd(RMul(c1, f1[3]), RMul(c2, f2[3]))) >>

\* The pull-back (Gram-Schmidt) on the tangent vectors v1, v2, v3: the new
\* vectors and the three values d takes, [e1, e2, e3, d1, d2, d3].  The
\* statements follow the script's order; each hands its result to the next
\* (n: normalized, u: after the removal of the components).
\* Lines 195-197 (243-245): e3 /= d.
Normalize3(n1, n2, u3, d1, d2, d3) ==
    [e1 |-> n1, e2 |-> n2, e3 |-> Scale(u3, d3),
     d1 |-> d1, d2 |-> d2, d3 |-> d3]

\* Line 194 (242): d = sqrt(e3x*e3x + e3y*e3y + e3z*e3z).
Measure3(n1, n2, u3, d1, d2) == Normalize3(n1, n2, u3, d1, d2, Length(u3))

\* The removal of the e1 component only from e3.
Project3FirstOnly(n1, n2, v3, d1, d2) ==
    Measure3(n1, n2, Remove(v3, Dot(n1, v3), n1), d1, d2)

\* Lines 188-192 (236-240): remove any e1 and e2 components from e3.
Project3(n1, n2, v3, d1, d2) ==
    Measure3(n1, n2, Remove2(v3, Dot(n1, v3), n1, Dot(n2, v3), n2), d1, d2)

\* Lines 184-186 (230-232): e2 /= d.
Normalize2(n1, u2, v3, d1, d2) == Project3(n1, Scale(u2, d2), v3, d1, d2)

\* Line 183 (229): d = sqrt(e2x*e2x + e2y*e2y + e2z*e2z).
Measure2(n1, u2, v3, d1) == Normalize2(n1, u2, v3, d1, Length(u2))

\* Lines 178-181 (224-227): remove any e1 component from e2.
Project2(n1, v2, v3, d1) == Measure2(n1, Remove(v2, Dot(n1, v2), n1), v3, d1)

\* Lines 174-176 (218-220): e1 /= d.
Normalize1(v1, v2, v3, d1) == Project2(Scale(v1, d1), v2, v3, d1)

\* Line 173 (217): d = sqrt(e1x*e1x + e1y*e1y + e1z*e1z).
PullBack(v1, v2, v3) == Normalize1(v1, v2, v3, Length(v1))

(***************************************************************************)
(* The script's run.                                                       *)
(*                                                                         *)
(* The script's settings (lines 100-112 and 137-156) are the run's inputs: *)
(* the run is modelled for every configuration of Configs.  In every       *)
(* configuration the flow is one whose RK4 steps stay small rationals for  *)
(* the whole run, so that the exact arithmetic above never leaves the      *)
(* machine integers.                                                       *)
(***************************************************************************)
MaxTransients == 2

MaxOrbit == 1

MaxIterates == 2

MaxItsPerPB == 2

V(p, q, r) == << Q(p, 1), Q(q, 1), Q(r, 1) >>

\* The initial tangent vectors of lines 148-156, a basis with e2 = e1, and
\* a skew basis.
StandardBasis == << V(1, 0, 0), V(0, 1, 0), V(0, 0, 1) >>

RepeatedBasis == << V(1, 0, 0), V(1, 0, 0), V(0, 0, 1) >>

SkewBasis == << V(2, 0, 0), V(1, 1, 0), V(1, 1, 1) >>

\* dt, the coefficients <<alpha, gamma, mu, beta, delta, lambd>>, the
\* initial condition and the initial tangent vectors.
Scenario(dt, p, s0, basis) ==
    [dt |-> Q(dt, 1),
     alpha |-> Q(p[1], 1), gamma |-> Q(p[2], 1), mu |-> Q(p[3], 1),
     beta |-> Q(p[4], 1), delta |-> Q(p[5], 1), lambd |-> Q(p[6], 1),
     s0 |-> s0, basis |-> basis]

Scenarios ==
    { Scenario(dt, <<1, 0, 0, 0, 1, 0>>, V(1, 1, 1), b) :
          dt \in {-1, 0, 1}, b \in {StandardBasis, RepeatedBasis, SkewBasis} }
    \cup { Scenario(1, <<1, 0, 0, 1, 0, 0>>, V(1, 1, 0), b) :
          b \in {StandardBasis, SkewBasis} }
    \cup { Scenario(2, <<0, 1, 0, 0, 0, 0>>, V(1, 1, 1), StandardBasis),
           Scenario(2, <<0, 0, 0, 0, 0, 1>>, V(1, 1, 1), StandardBasis),
           Scenario(-2, <<0, 0, 1, 0, 0, 0>>, V(1, 1, 1), StandardBasis) }

Counts ==
    [nTransients : 1 .. MaxTransients, nOrbit : 1 .. MaxOrbit,
     nIterates : 1 .. MaxIterates, nItsPerPB : 1 .. MaxItsPerPB]

Configs == { [sc |-> s, ct |-> c] : s \in Scenarios, c \in Counts }

Unset == [k |-> "unset"]

\* A sum of logarithms divided by a number: (log(logs[1]) + ... ) / over.
\* 0.0 is the empty sum over 1.
LogZero == [logs |-> << >>, over |-> One]

\* acc + log(d)
AddLog(acc, d) == [acc EXCEPT !.logs = Append(acc.logs, d)]

\* acc / t (numpy's division: no exception when t is zero)
DivLog(acc, t) == [acc EXCEPT !.over = RMul(acc.over, t)]

VARIABLES
    cfg,              \* the settings of the run
    pc,               \* the loop the script is in
    at,               \* the statement of the loop body it is at
    loop,             \* the loop counters n and i: iterations completed
    State,            \* <<xState, yState, zState>>
    orbit,            \* the lists x, y, z
    e1, e2, e3,       \* the tangent vectors <<e1x, e1y, e1z>>, ...
    norms,            \* the three values d took in the last pull-back
    LCE,              \* <<LCE1, LCE2, LCE3>>
    IntegrationTime,
    Contraction,
    calls,            \* integrator calls made so far, by loop (observation)
    probe             \* a call of one of the script's functions on its own

vars ==
    << cfg, pc, at, loop, State, orbit, e1, e2, e3, norms, LCE,
       IntegrationTime, Contraction, calls, probe >>

\* One integrator step of the point s under the run's settings.
Advance(s) ==
    RKThreeD(cfg.sc.alpha, cfg.sc.gamma, cfg.sc.mu, cfg.sc.beta, cfg.sc.delta,
             cfg.sc.lambd, s[1], s[2], s[3], cfg.sc.dt)

\* One integrator step of the tangent vector e at the point s.
Evolve(s, e) ==
    TangentFlowRKThreeD(cfg.sc.alpha, cfg.sc.gamma, cfg.sc.mu, cfg.sc.beta,
                        cfg.sc.delta, cfg.sc.lambd, s[1], s[2], s[3],
                        e[1], e[2], e[3], cfg.sc.dt)

\* No function is called on its own in a run of the script.
NoProbe == [fn |-> "none"]

NoCalls ==
    [transient |-> 0, orbit |-> 0, align |-> 0, accum |-> 0, tangent |-> 0]

Init ==
    /\ cfg \in Configs
    /\ pc = "transient"
    /\ at = "step"
    /\ loop = [n |-> 0, i |-> 0]
    /\ State = cfg.sc.s0
    /\ orbit = Unset
    /\ e1 = Unset
    /\ e2 = Unset
    /\ e3 = Unset
    /\ norms = Unset
    /\ LCE = Unset
    /\ IntegrationTime = Unset
    /\ Contraction = Unset
    /\ calls = NoCalls
    /\ probe = NoProbe

\* Lines 119-121: one iteration of the transient loop.
TransientStep ==
    /\ pc = "transient"
    /\ loop.n < cfg.ct.nTransients
    /\ State' = Advance(State)
    /\ loop' = [loop EXCEPT !.n = @ + 1]
    /\ calls' = [calls EXCEPT !.transient = @ + 1]
    /\ UNCHANGED << probe, cfg, pc, at, orbit, e1, e2, e3, norms, LCE,
                    IntegrationTime, Contraction >>

\* Lines 123-125: the lists start with the current state.
StoreState ==
    /\ pc = "transient"
    /\ loop.n = cfg.ct.nTransients
    /\ orbit' = [x |-> << State[1] >>, y |-> << State[2] >>, z |-> << State[3] >>]
    /\ pc' = "orbit"
    /\ loop' = [loop EXCEPT !.n = 0]
    /\ UNCHANGED << probe, cfg, at, State, e1, e2, e3, norms, LCE, IntegrationTime,
                    Contraction, calls >>

\* Lines 131-133: the point t is appended to the lists.
Record(o, t) ==
    [x |-> Append(o.x, t[1]), y |-> Append(o.y, t[2]), z |-> Append(o.z, t[3])]

\* Lines 126-133: one iteration of the loop that records the orbit; x[n] of
\* the script is orbit.x[n + 1] here.
OrbitStep ==
    /\ pc = "orbit"
    /\ loop.n < cfg.ct.nOrbit
    /\ orbit' = Record(orbit, Advance(<< orbit.x[loop.n + 1],
                                         orbit.y[loop.n + 1],
                                         orbit.z[loop.n + 1] >>))
    /\ loop' = [loop EXCEPT !.n = @ + 1]
    /\ calls' = [calls EXCEPT !.orbit = @ + 1]
    /\ UNCHANGED << probe, cfg, pc, at, State, e1, e2, e3, norms, LCE,
                    IntegrationTime, Contraction >>

\* The estimation carrying on from the state the first part left.
EstimationStartKept(cur) == cur

\* The state the estimation starts from: lines 144-146 assign the initial
\* condition again, whatever the current state cur is.
EstimationStart(cur) == cfg.sc.s0

\* Lines 136-156: the settings of the estimation, the initial condition and
\* the initial tangent vectors.
SetUp ==
    /\ pc = "orbit"
    /\ loop.n = cfg.ct.nOrbit
    /\ State' = EstimationStart(State)
    /\ e1' = cfg.sc.basis[1]
    /\ e2' = cfg.sc.basis[2]
    /\ e3' = cfg.sc.basis[3]
    /\ pc' = "align"
    /\ at' = "state"
    /\ loop' = [n |-> 0, i |-> 0]
    /\ UNCHANGED << probe, cfg, orbit, norms, LCE, IntegrationTime, Contraction,
                    calls >>

\* Lines 161-162 and 205-206: the state is advanced one step.
CoAdvanceState(phase) ==
    /\ pc = phase
    /\ at = "state"
    /\ State' = Advance(State)
    /\ at' = "e1"
    /\ calls' = [calls EXCEPT ![phase] = @ + 1]
    /\ UNCHANGED << probe, cfg, pc, loop, orbit, e1, e2, e3, norms, LCE,
                    IntegrationTime, Contraction >>

\* Lines 164-165 and 208-209: the tangent vector for the maximum LCE.
CoAdvanceE1(phase) ==
    /\ pc = phase
    /\ at = "e1"
    /\ e1' = Evolve(State, e1)
    /\ at' = "e2"
    /\ calls' = [calls EXCEPT !.tangent = @ + 1]
    /\ UNCHANGED << probe, cfg, pc, loop, State, orbit, e2, e3, norms, LCE,
                    IntegrationTime, Contraction >>

\* Lines 167-168 and 211-212: the tangent vector for the next LCE.
CoAdvanceE2(phase) ==
    /\ pc = phase
    /\ at = "e2"
    /\ e2' = Evolve(State, e2)
    /\ at' = "e3"
    /\ calls' = [calls EXCEPT !.tangent = @ + 1]
    /\ UNCHANGED << probe, cfg, pc, loop, State, orbit, e1, e3, norms, LCE,
                    IntegrationTime, Contraction >>

\* Lines 170-171 and 214-215: the tangent vector for the last LCE; the
\* iteration of the inner loop (lines 160, 204) ends.
CoAdvanceE3(phase) ==
    /\ pc = phase
    /\ at = "e3"
    /\ e3' = Evolve(State, e3)
    /\ loop' = [loop EXCEPT !.i = @ + 1]
    /\ at' = IF loop.i + 1 < cfg.ct.nItsPerPB THEN "state" ELSE "pullback"
    /\ calls' = [calls EXCEPT !.tangent = @ + 1]
    /\ UNCHANGED << probe, cfg, pc, State, orbit, e1, e2, norms, LCE,
                    IntegrationTime, Contraction >>

\* The tangent vectors and d after the pull-back pb.
Rebase(pb) ==
    /\ e1' = pb.e1
    /\ e2' = pb.e2
    /\ e3' = pb.e3
    /\ norms' = << pb.d1, pb.d2, pb.d3 >>

AlignAdvanceState == CoAdvanceState("align")

AlignEvolveE1 == CoAdvanceE1("align")

AlignEvolveE2 == CoAdvanceE2("align")

AlignEvolveE3 == CoAdvanceE3("align")

\* Lines 172-197: the pull-back of the alignment loop; d is not kept.
AlignPullBack ==
    /\ pc = "align"
    /\ at = "pullback"
    /\ Rebase(PullBack(e1, e2, e3))
    /\ loop' = [n |-> loop.n + 1, i |-> 0]
    /\ at' = IF loop.n + 1 < cfg.ct.nTransients THEN "state" ELSE "end"
    /\ UNCHANGED << probe, cfg, pc, State, orbit, LCE, IntegrationTime, Contraction,
                    calls >>

\* Lines 199-202: the exponents start at 0.0.
BeginEstimation ==
    /\ pc = "align"
    /\ at = "end"
    /\ LCE' = << LogZero, LogZero, LogZero >>
    /\ pc' = "accum"
    /\ at' = "state"
    /\ loop' = [n |-> 0, i |-> 0]
    /\ UNCHANGED << probe, cfg, State, orbit, e1, e2, e3, norms, IntegrationTime,
                    Contraction, calls >>

AccumAdvanceState == CoAdvanceState("accum")

AccumEvolveE1 == CoAdvanceE1("accum")

AccumEvolveE2 == CoAdvanceE2("accum")

AccumEvolveE3 == CoAdvanceE3("accum")

\* The pull-back adding the value d took last to every exponent.
AccumulateLast(acc, d1, d2, d3) ==
    << AddLog(acc[1], d3), AddLog(acc[2], d3), AddLog(acc[3], d3) >>

\* The exponents after a pull-back whose d took the values d1, d2, d3:
\* lines 222, 234, 247.
Accumulate(acc, d1, d2, d3) ==
    << AddLog(acc[1], d1), AddLog(acc[2], d2), AddLog(acc[3], d3) >>

RebaseAndAccumulate(pb) ==
    /\ Rebase(pb)
    /\ LCE' = Accumulate(LCE, pb.d1, pb.d2, pb.d3)

\* Lines 216-247: the pull-back of the estimation loop.
AccumPullBack ==
    /\ pc = "accum"
    /\ at = "pullback"
    /\ RebaseAndAccumulate(PullBack(e1, e2, e3))
    /\ loop' = [n |-> loop.n + 1, i |-> 0]
    /\ at' = IF loop.n + 1 < cfg.ct.nIterates THEN "state" ELSE "end"
    /\ UNCHANGED << probe, cfg, pc, State, orbit, IntegrationTime, Contraction,
                    calls >>

\* The time of the pull-backs counted as single steps.
ElapsedTimePerPullBack(dt, nItsPerPB, nIterates) ==
    RMul(dt, Q(nIterates, 1))

\* Line 250: dt * float(nItsPerPB) * float(nIterates)
ElapsedTime(dt, nItsPerPB, nIterates) ==
    RMul(RMul(dt, Q(nItsPerPB, 1)), Q(nIterates, 1))

\* Lines 249-257: the exponents per unit of time, and the contraction.
Convert ==
    /\ pc = "accum"
    /\ at = "end"
    /\ IntegrationTime' =
           ElapsedTime(cfg.sc.dt, cfg.ct.nItsPerPB, cfg.ct.nIterates)
    /\ LCE' = << DivLog(LCE[1], IntegrationTime'), DivLog(LCE[2], IntegrationTime'),
                 DivLog(LCE[3], IntegrationTime') >>
    /\ Contraction' = LorenzODETrJac(cfg.sc.alpha, cfg.sc.gamma, cfg.sc.mu,
                                     cfg.sc.beta, cfg.sc.delta, cfg.sc.lambd,
                                     Zero, Zero, Zero)
    /\ pc' = "done"
    /\ at' = "report"
    /\ UNCHANGED << probe, cfg, loop, State, orbit, e1, e2, e3, norms, calls >>

Next ==
    \/ TransientStep
    \/ StoreState
    \/ OrbitStep
    \/ SetUp
    \/ AlignAdvanceState
    \/ AlignEvolveE1
    \/ AlignEvolveE2
    \/ AlignEvolveE3
    \/ AlignPullBack
    \/ BeginEstimation
    \/ AccumAdvanceState
    \/ AccumEvolveE1
    \/ AccumEvolveE2
    \/ AccumEvolveE3
    \/ AccumPullBack
    \/ Convert

Spec == Init /\ [][Next]_vars

(***************************************************************************)
(* The script's functions called on their own.  No run is in progress: the *)
(* variables of the run keep the values of Idle, and probe holds the call: *)
(* the function, its arguments and, once made, its outcome.                *)
(***************************************************************************)
runVars ==
    << cfg, pc, at, loop, State, orbit, e1, e2, e3, norms, LCE,
       IntegrationTime, Contraction, calls >>

Idle ==
    /\ cfg = Unset
    /\ pc = "probe"
    /\ at = "call"
    /\ loop = [n |-> 0, i |-> 0]
    /\ State = Unset
    /\ orbit = Unset
    /\ e1 = Unset
    /\ e2 = Unset
    /\ e3 = Unset
    /\ norms = Unset
    /\ LCE = Unset
    /\ IntegrationTime = Unset
    /\ Contraction = Unset
    /\ calls = NoCalls

\* The exponents tried are the multiples k/200 of half the tolerance and
\* the integers k, for k up to FDSteps either way.
FDSteps == 3

FDValues ==
    { Q(k, 200) : k \in -FDSteps .. FDSteps }
    \cup { Q(k, 1) : k \in -FDSteps .. FDSteps }

Typed(ty, v) == IF ty = "float" THEN PyFloat(v) ELSE NpFloat(v)

InitFD ==
    /\ Idle
    /\ probe \in { [fn |-> "FractalDimension3DODE", ty |-> ty,
                     args |-> << l1, l2, l3 >>, out |-> Unset] :
                       ty \in {"float", "float64"},
                       l1 \in FDValues, l2 \in FDValues, l3 \in FDValues }

\* FractalDimension3DODE(LCE1, LCE2, LCE3) as line 262 calls it.
CallFractalDimension ==
    /\ probe.fn = "FractalDimension3DODE"
    /\ probe.out = Unset
    /\ probe' = [probe EXCEPT !.out =
                    FractalDimension3DODE(Typed(probe.ty, probe.args[1]),
                                          Typed(probe.ty, probe.args[2]),
                                          Typed(probe.ty, probe.args[3]))]
    /\ UNCHANGED runVars

NextFD == CallFractalDimension

SpecFD == InitFD /\ [][NextFD]_vars

\* The field and the linearized field as vectors; p is the tuple of
\* coefficients <<alpha, gamma, mu, beta, delta, lambd>>.
Field(p, s) ==
    << LorenzXDot(p[1], p[2], p[3], p[4], p[5], p[6], s[1], s[2], s[3]),
       LorenzYDot(p[1], p[2], p[3], p[4], p[5], p[6], s[1], s[2], s[3]),
       LorenzZDot(p[1], p[2], p[3], p[4], p[5], p[6], s[1], s[2], s[3]) >>

TangentField(p, s, t) ==
    << LorenzDXDot(p[1], p[2], p[3], p[4], p[5], p[6], s[1], s[2], s[3],
                   t[1], t[2], t[3]),
       LorenzDYDot(p[1], p[2], p[3], p[4], p[5], p[6], s[1], s[2], s[3],
                   t[1], t[2], t[3]),
       LorenzDZDot(p[1], p[2], p[3], p[4], p[5], p[6], s[1], s[2], s[3],
                   t[1], t[2], t[3]) >>

\* The points tried have integer coordinates up to FieldMax either way.
FieldMax == 1

FieldPoints ==
    { V(x, y, z) : x \in -FieldMax .. FieldMax, y \in -FieldMax .. FieldMax,
                   z \in -FieldMax .. FieldMax }

\* The coefficients tried: the script's (lines 103-108) and two more.
FieldCoefficients ==
    { << Q(5, 1), Q(1, 1), Q(11, 5), Q(8, 1), Q(1, 1), Q(639, 100) >>,
      << Q(1, 1), Q(2, 1), Q(3, 1), Q(4, 1), Q(5, 1), Q(6, 1) >>,
      << Q(-2, 1), Q(0, 1), Q(1, 2), Q(-3, 1), Q(1, 1), Q(-1, 3) >> }

FieldTangents == { V(x, y, z) : x \in {-1, 0, 2}, y \in {-1, 0, 2}, z \in {-1, 0, 2} }

UnitVectors == { V(1, 0, 0), V(0, 1, 0), V(0, 0, 1) }

InitField ==
    /\ Idle
    /\ probe \in { [fn |-> "field", p |-> p, s |-> s, t |-> t, u |-> u,
                     c |-> c, out |-> Unset] :
                       p \in FieldCoefficients, s \in FieldPoints,
                       t \in FieldTangents, u \in UnitVectors,
                       c \in {Q(-1, 1), Q(3, 2)} }

\* The field at s and at s + t, the linearized field at s for t, u, t + u
\* and c * t, its diagonal entries, and LorenzODETrJac at s.
FieldCalls(p, s, t, u, c) ==
    [f_s   |-> Field(p, s),
     f_st  |-> Field(p, VAdd(s, t)),
     df_t  |-> TangentField(p, s, t),
     df_u  |-> TangentField(p, s, u),
     df_tu |-> TangentField(p, s, VAdd(t, u)),
     df_ct |-> TangentField(p, s, VTimes(c, t)),
     diag  |-> << TangentField(p, s, V(1, 0, 0))[1],
                  TangentField(p, s, V(0, 1, 0))[2],
                  TangentField(p, s, V(0, 0, 1))[3] >>,
     trace |-> LorenzODETrJac(p[1], p[2], p[3], p[4], p[5], p[6],
                              s[1], s[2], s[3])]

CallField ==
    /\ probe.fn = "field"
    /\ probe.out = Unset
    /\ probe' = [probe EXCEPT !.out =
                    FieldCalls(probe.p, probe.s, probe.t, probe.u, probe.c)]
    /\ UNCHANGED runVars

NextField == CallField

SpecField == InitField /\ [][NextField]_vars

(***************************************************************************)
(* The order of the run and the state each part works on.                  *)
(***************************************************************************)
\* The point s after k steps of the state alone.
RECURSIVE StateOnlySteps(_, _)
StateOnlySteps(s, k) == IF k = 0 THEN s ELSE StateOnlySteps(Advance(s), k - 1)

AlignmentSteps == cfg.ct.nTransients * cfg.ct.nItsPerPB

EstimationSteps == cfg.ct.nIterates * cfg.ct.nItsPerPB

\* The first step of the alignment loop is about to be taken.
AlignmentStarts == pc = "align" /\ at = "state" /\ calls.align = 0

\* C1 as the spec states it: the first step of the alignment loop works on
\* the state that nTransients steps of the state alone produce from the
\* initial condition.
C1_AlignmentContinuesTransient ==
    AlignmentStarts => State = StateOnlySteps(cfg.sc.s0, cfg.ct.nTransients)

\* C1, amended: the parts of the run come in the order transient loop, orbit,
\* alignment loop, estimation loop, conversion, each complete before the
\* next starts; no tangent vector exists or is advanced during the transient
\* loop, whose final state only starts the recorded orbit; the first step of
\* the alignment loop works on the initial condition again; and the
\* estimation loop starts on the state the alignment loop left, so that the
\* state of the estimation is the initial condition advanced by the steps of
\* the alignment and estimation loops alone.
C1_PhasesInOrderFromInitialCondition ==
    /\ pc \in {"transient", "orbit", "align", "accum", "done"}
    /\ pc = "transient" =>
          /\ calls = [NoCalls EXCEPT !.transient = loop.n]
          /\ State = StateOnlySteps(cfg.sc.s0, loop.n)
          /\ e1 = Unset /\ e2 = Unset /\ e3 = Unset
    /\ pc = "orbit" =>
          /\ calls = [NoCalls EXCEPT !.transient = cfg.ct.nTransients,
                                     !.orbit = loop.n]
          /\ State = StateOnlySteps(cfg.sc.s0, cfg.ct.nTransients)
          /\ << orbit.x[1], orbit.y[1], orbit.z[1] >> = State
          /\ e1 = Unset /\ e2 = Unset /\ e3 = Unset
    /\ pc \in {"align", "accum", "done"} =>
          /\ calls.transient = cfg.ct.nTransients
          /\ calls.orbit = cfg.ct.nOrbit
          /\ State = StateOnlySteps(cfg.sc.s0, calls.align + calls.accum)
    /\ AlignmentStarts => State = cfg.sc.s0 /\ calls.tangent = 0
    /\ pc = "align" =>
          /\ calls.accum = 0
          /\ calls.align <= AlignmentSteps
          /\ at = "end" => calls.align = AlignmentSteps
    /\ pc = "accum" =>
          /\ calls.align = AlignmentSteps
          /\ calls.accum <= EstimationSteps
          /\ at = "end" => calls.accum = EstimationSteps
    /\ pc = "done" =>
          /\ calls.align = AlignmentSteps
          /\ calls.accum = EstimationSteps

\* C1 witness: the estimation loop starts on a state that the alignment loop
\* moved, in a run whose transient loop had moved the state too.
C1_Witness ==
    /\ pc = "accum" /\ at = "state" /\ calls.accum = 0
    /\ State # cfg.sc.s0
    /\ << orbit.x[1], orbit.y[1], orbit.z[1] >> # cfg.sc.s0
    /\ State # << orbit.x[1], orbit.y[1], orbit.z[1] >>

(***************************************************************************)
(* The exponents: what is accumulated, and the conversion.                 *)
(***************************************************************************)
\* C2: the values d takes in the alignment loop are not kept: the exponents
\* do not exist before the estimation loop and are exactly 0.0 when it
\* starts; in the estimation loop every exponent k is the sum of one
\* log(d_k) per pull-back made so far, the last of them the value d took for
\* vector k in the last pull-back; at the end every exponent is a sum of
\* exactly nIterates logarithms, not divided by anything before the
\* conversion.
C2_LogsOfEstimationPullBacksOnly ==
    /\ pc \in {"transient", "orbit", "align"} => LCE = Unset
    /\ pc = "accum" =>
          \A k \in 1 .. 3 :
             /\ LCE[k].over = One
             /\ Len(LCE[k].logs) = loop.n
             /\ loop.n = 0 => LCE[k] = LogZero
             /\ loop.n > 0 => LCE[k].logs[loop.n] = norms[k]
    /\ pc = "done" =>
          \A k \in 1 .. 3 : Len(LCE[k].logs) = cfg.ct.nIterates

\* C2, the steps: the exponents change only when the estimation starts (set
\* to 0.0), in a pull-back of the estimation loop (one logarithm more each,
\* of the value d took for that vector in this pull-back) and in the
\* conversion (the logarithms stay).
C2_Step ==
    LCE' # LCE =>
       \/ pc = "align" /\ pc' = "accum" /\ LCE' = << LogZero, LogZero, LogZero >>
       \/ /\ pc = "accum" /\ at = "pullback"
          /\ \A k \in 1 .. 3 : LCE'[k].logs = Append(LCE[k].logs, norms'[k])
       \/ /\ pc = "accum" /\ pc' = "done"
          /\ \A k \in 1 .. 3 : LCE'[k].logs = LCE[k].logs

\* C2: both parts, the states and the steps.
C2_AccumulatorsTakeEstimationLogsOnly ==
    [](C2_LogsOfEstimationPullBacksOnly) /\ [][C2_Step]_vars

\* C2 witness: a finished run of two pull-backs whose alignment loop met
\* values of d other than 1, and whose three sums differ.
C2_Witness ==
    /\ pc = "done"
    /\ cfg.ct.nIterates = 2
    /\ Len(LCE[1].logs) = 2
    /\ LCE[1].logs # LCE[2].logs
    /\ LCE[2].logs # LCE[3].logs
    /\ LCE[2].logs[1] # One

\* 1 while an iteration of the inner loop has advanced the state but not yet
\* all three tangent vectors, or the pull-back is still to be made.
Pending == IF at \in {"e1", "e2", "e3", "pullback"} THEN 1 ELSE 0

Finite(v) == IsFin(v[1]) /\ IsFin(v[2]) /\ IsFin(v[3])

\* C6 as the spec states it: a pull-back in which a tangent vector has norm
\* zero after the removal of the components ends the run, and no exponents
\* are produced; so a run that produced its exponents divided by no zero:
\* every value of d it accumulated is a number other than zero, and its
\* tangent vectors are numbers.
C6_ZeroNormAbortsTheRun ==
    pc = "done" =>
       /\ Finite(e1) /\ Finite(e2) /\ Finite(e3)
       /\ \A k \in 1 .. 3 : \A j \in 1 .. Len(LCE[k].logs) :
             IsFin(LCE[k].logs[j]) /\ ~IsZero(LCE[k].logs[j])

\* C7 as the spec states it: with dt <= 0 the run fails before any
\* integrator step is made.
C7_NonPositiveStepRefused ==
    Sign(cfg.sc.dt) <= 0 => calls = NoCalls

(***************************************************************************)
(* The pull-back.                                                          *)
(***************************************************************************)
Cross(u, v) ==
    << RSub(RMul(u[2], v[3]), RMul(u[3], v[2])),
       RSub(RMul(u[3], v[1]), RMul(u[1], v[3])),
       RSub(RMul(u[1], v[2]), RMul(u[2], v[1])) >>

Det(u, v, w) == Dot(u, Cross(v, w))

Square(a) == RMul(a, a)

\* The Gram determinant of u and v: the squared area they span.
Gram2(u, v) == RSub(RMul(Dot(u, u), Dot(v, v)), Square(Dot(u, v)))

Independent(u, v, w) == IsFin(Det(u, v, w)) /\ ~IsZero(Det(u, v, w))

Orthonormal(u, v, w) ==
    /\ Dot(u, u) = One /\ Dot(v, v) = One /\ Dot(w, w) = One
    /\ IsZero(Dot(u, v)) /\ IsZero(Dot(u, w)) /\ IsZero(Dot(v, w))

\* A pull-back of the alignment or the estimation loop is made.
PullBackStep == at = "pullback" /\ at' # "pullback"

\* C8, the step: a pull-back of linearly independent tangent vectors leaves
\* three vectors of norm 1, orthogonal in pairs; the vectors are taken in
\* the order 1, 2, 3: the new e1 is along the old e1, the new e2 in the plane
\* of the old e1 and e2 on e2's side, the new e3 on the old e3's side; and the
\* values of d are the norms after the removal of the components: |e1|, the
\* distance of e2 from the line of e1, and the distance of e3 from the
\* plane of e1 and e2 (by the Gram determinants of the old vectors).
C8_Step ==
    (PullBackStep /\ Independent(e1, e2, e3)) =>
       /\ Orthonormal(e1', e2', e3')
       /\ e1 = VTimes(norms'[1], e1')
       /\ IsZero(Det(e1, e2, e2'))
       /\ Sign(Dot(e2, e2')) = 1
       /\ Sign(Dot(e3, e3')) = 1
       /\ \A k \in 1 .. 3 : Sign(norms'[k]) = 1
       /\ Square(norms'[1]) = Dot(e1, e1)
       /\ RMul(Square(norms'[2]), Dot(e1, e1)) = Gram2(e1, e2)
       /\ RMul(Square(norms'[3]), Gram2(e1, e2)) = Square(Det(e1, e2, e3))

\* C8: every pull-back of linearly independent tangent vectors
\* orthonormalizes them in index order with the stated factors.
C8_PullBackOrthonormalizes == [][C8_Step]_vars

\* C8 witness: a pull-back has been made of vectors that were neither
\* orthogonal nor of norm 1: every value d took differs from 1, and the
\* vectors left are numbers.
C8_Witness ==
    /\ pc \in {"align", "accum"} /\ at \in {"state", "end"} /\ loop.n > 0
    /\ loop.i = 0
    /\ Finite(e1) /\ Finite(e2) /\ Finite(e3)
    /\ \A k \in 1 .. 3 : IsFin(norms[k]) /\ norms[k] # One
    /\ \E k \in 1 .. 3 : norms[k].r > 1

(***************************************************************************)
(* The co-advance of the state and the tangent vectors.                    *)
(***************************************************************************)
\* The Jacobian of the field at the point s, row by row, times dt.
StepMatrix(sc, s) ==
    << << RNeg(RMul(sc.dt, sc.gamma)),
          RMul(sc.dt, RMul(sc.alpha, s[3])),
          RMul(sc.dt, RMul(sc.alpha, s[2])) >>,
       << RNeg(RMul(sc.dt, RMul(sc.beta, s[3]))),
          RMul(sc.dt, sc.mu),
          RMul(sc.dt, RSub(sc.mu, RMul(sc.beta, s[1]))) >>,
       << Zero,
          RMul(sc.dt, sc.delta),
          RNeg(RMul(sc.dt, sc.lambd)) >> >>

Apply(m, t) == << Dot(m[1], t), Dot(m[2], t), Dot(m[3], t) >>

\* t + A t + A^2 t / 2 + A^3 t / 6 + A^4 t / 24: a fourth-order step of the
\* linear flow t' = J(s) t with the point s held fixed, A = dt * J(s).
LinearStep(m, t) ==
    VAdd(t,
      Apply(m, VAdd(t,
        VTimes(Q(1, 2), Apply(m, VAdd(t,
          VTimes(Q(1, 3), Apply(m, VAdd(t,
            VTimes(Q(1, 4), Apply(m, t)))))))))))

\* C9, the states: inside an iteration of the inner loop the state is one
\* step ahead of the tangent vectors still to be advanced.
C9_StateFirst ==
    pc \in {"align", "accum"} =>
       calls[pc] = (loop.n * cfg.ct.nItsPerPB + loop.i)
                   + (IF at \in {"e1", "e2", "e3"} THEN 1 ELSE 0)

\* C9, the steps: every iteration of the inner loops advances the state
\* first and leaves the tangent vectors alone; then each tangent vector in
\* turn makes one fourth-order step of the flow linearized at that advanced
\* state, held fixed through the four stages, from its own value only, the
\* state and the other two vectors left alone.
C9_Step ==
    pc \in {"align", "accum"} =>
       /\ at = "state" /\ at' # at =>
             /\ at' = "e1"
             /\ State' = Advance(State)
             /\ UNCHANGED << e1, e2, e3 >>
       /\ at = "e1" /\ at' # at =>
             /\ at' = "e2"
             /\ e1' = LinearStep(StepMatrix(cfg.sc, State), e1)
             /\ UNCHANGED << State, e2, e3 >>
       /\ at = "e2" /\ at' # at =>
             /\ at' = "e3"
             /\ e2' = LinearStep(StepMatrix(cfg.sc, State), e2)
             /\ UNCHANGED << State, e1, e3 >>
       /\ at = "e3" /\ at' # at =>
             /\ at' \in {"state", "pullback"}
             /\ e3' = LinearStep(StepMatrix(cfg.sc, State), e3)
             /\ UNCHANGED << State, e1, e2 >>

\* C9: the state is advanced first, then every tangent vector with the
\* flow linearized at the advanced state.
C9_TangentsFollowAdvancedState == [](C9_StateFirst) /\ [][C9_Step]_vars

\* C9 witness: in the estimation loop the state has been advanced and e1 and
\* e2 after it, both turned away from the vectors the pull-back left, at a
\* point where the linearized flow depends on the state.
C9_Witness ==
    /\ pc = "accum" /\ at = "e3"
    /\ Finite(e1) /\ Finite(e2) /\ Finite(e3)
    /\ ~IsZero(Dot(e1, e2))
    /\ State # cfg.sc.s0
    /\ StepMatrix(cfg.sc, State) # StepMatrix(cfg.sc, cfg.sc.s0)

(***************************************************************************)
(* The fractal dimension.                                                  *)
(***************************************************************************)
FDCalled == probe.fn = "FractalDimension3DODE" /\ probe.out # Unset

\* The position of the rational a against the tolerance 1/100, by integers.
Below(a) == 100 * a.n < -a.d

Above(a) == 100 * a.n > a.d

Near(a) == ~Below(a) /\ ~Above(a)

FDCase(c, l) ==
    CASE c = 1 -> Below(l[1])
      [] c = 2 -> Near(l[1]) /\ Below(l[2])
      [] c = 3 -> Near(l[1]) /\ ~Below(l[2])
      [] c = 4 -> Above(l[1])

FDGives(l1, l2, l3, v) ==
    probe.args = << Q(l1, 1), Q(l2, 1), Q(l3, 1) >> =>
       probe.out.k = "return" /\ probe.out.v.v = v

\* C4: for every triple with LCE[2] # 0 exactly one of the four cases
\* holds, the call returns, and it returns 0 when LCE[0] < -0.01; 1 when
\* |LCE[0]| <= 0.01 and LCE[1] < -0.01; 2 when |LCE[0]| <= 0.01 and
\* LCE[1] >= -0.01; and the v with (v - 2) * |LCE[2]| = LCE[0] + LCE[1] when
\* LCE[0] > 0.01; so (-1,-2,-3) gives 0, (0,-1,-2) gives 1, (0,0,-1) gives 2
\* and (1,0,-2) gives 5/2.
C4_FractalDimensionByCases ==
    (FDCalled /\ ~IsZero(probe.args[3])) =>
       /\ Cardinality({ c \in 1 .. 4 : FDCase(c, probe.args) }) = 1
       /\ probe.out.k = "return"
       /\ IsFin(probe.out.v.v)
       /\ FDCase(1, probe.args) => probe.out.v.v = Zero
       /\ FDCase(2, probe.args) => probe.out.v.v = One
       /\ FDCase(3, probe.args) => probe.out.v.v = Two
       /\ FDCase(4, probe.args) =>
             RMul(RSub(probe.out.v.v, Two), RAbs(probe.args[3]))
                = RAdd(probe.args[1], probe.args[2])
       /\ FDGives(-1, -2, -3, Zero)
       /\ FDGives(0, -1, -2, One)
       /\ FDGives(0, 0, -1, Two)
       /\ FDGives(1, 0, -2, Q(5, 2))

\* C4 witness: the call with (1, 0, -2) has returned 5/2.
C4_Witness ==
    /\ FDCalled
    /\ probe.args = << Q(1, 1), Q(0, 1), Q(-2, 1) >>
    /\ probe.out = Return(Typed(probe.ty, Q(5, 2)))

\* C5 as the spec states it: a call with LCE[0] > 0.01 and LCE[2] = 0 ends
\* in a division-by-zero error or returns a finite value, never an infinite
\* or undefined one.
C5_ZeroLastExponentHandled ==
    (FDCalled /\ Above(probe.args[1]) /\ IsZero(probe.args[3])) =>
       \/ probe.out.k = "raise"
       \/ probe.out.k = "return" /\ IsFin(probe.out.v.v)

(***************************************************************************)
(* The field and its linearization.                                        *)
(***************************************************************************)
FieldCalled == probe.fn = "field" /\ probe.out # Unset

VSub(u, v) == << RSub(u[1], v[1]), RSub(u[2], v[2]), RSub(u[3], v[3]) >>

\* C10: the linearized field is the Jacobian-vector product of the field:
\* field(s + t) - field(s) - linearized(s, t) is exactly the second-order
\* term (alpha*dy*dz, -beta*dx*dz, 0); linearized(s, .) is additive and
\* homogeneous; and the sum of its diagonal entries is what LorenzODETrJac
\* returns, mu - gamma - lambd, at every point.
C10_LinearizedFieldIsJacobian ==
    FieldCalled =>
       /\ VSub(VSub(probe.out.f_st, probe.out.f_s), probe.out.df_t)
             = << RMul(probe.p[1], RMul(probe.t[2], probe.t[3])),
                  RNeg(RMul(probe.p[4], RMul(probe.t[1], probe.t[3]))),
                  Zero >>
       /\ probe.out.df_tu = VAdd(probe.out.df_t, probe.out.df_u)
       /\ probe.out.df_ct = VTimes(probe.c, probe.out.df_t)
       /\ probe.out.trace
             = RAdd(RAdd(probe.out.diag[1], probe.out.diag[2]),
                    probe.out.diag[3])
       /\ RAdd(RAdd(probe.out.trace, probe.p[2]), probe.p[6]) = probe.p[3]

\* C10 witness: a call with the script's coefficients away from the origin,
\* where both second-order terms are non-zero and the linearized field too.
C10_Witness ==
    /\ FieldCalled
    /\ probe.p[6] = Q(639, 100)
    /\ ~IsZero(probe.s[1]) /\ ~IsZero(probe.s[2]) /\ ~IsZero(probe.s[3])
    /\ ~IsZero(probe.t[1]) /\ ~IsZero(probe.t[2]) /\ ~IsZero(probe.t[3])
    /\ \A j \in 1 .. 3 : ~IsZero(probe.out.df_t[j])

====
